---------------------------- MODULE Spec2Model ----------------------------
(***************************************************************************)
(* A model of the two programs of the repository:                          *)
(*                                                                         *)
(*   app_afcon_2025.py  the dashboard: list the CSV files of a folder,     *)
(*                      load and clean the selected ones, concatenate,     *)
(*                      filter;                                            *)
(*   scrape_tm.py       the scraper: for each team URL fetch the roster,   *)
(*                      follow every player's detail page, write one CSV   *)
(*                      per team and an optional combined CSV.             *)
(*                                                                         *)
(* Text is a sequence of one-character strings, so that str.strip,         *)
(* str.lower, str.replace, re.sub and the regular expressions are computed *)
(* character by character.  A number is an exact decimal: a sign and the   *)
(* digits before and after the point (pandas holds a float64; the values   *)
(* compared here are exactly representable or correctly rounded, e.g.      *)
(* 185 / 100 == 1.85).                                                     *)
(*                                                                         *)
(* Spec is a run of either program on the files and pages of a small       *)
(* catalogue; CleanSpec applies load_and_clean_csv to every frame of a     *)
(* bounded set of headers and cell texts.                                  *)
(***************************************************************************)
EXTENDS Naturals, Sequences, FiniteSets, TLC

VARIABLES
    prog,           \* what runs: "app", "scrape", or "clean" (CleanSpec)
    \* ---- load_and_clean_csv on its own (CleanSpec)
    table,          \* the DataFrame pd.read_csv returned
    cleaned,        \* what load_and_clean_csv returned, <<>> before the call
    \* ---- the dashboard script
    apc,            \* the script's position
    listing,        \* os.listdir(data_dir): a set of file names
    csv_files,      \* list_csv_files(data_dir)
    selected_files, \* the multiselect's value
    dfs,            \* the frames loaded so far
    df_all,         \* pd.concat(dfs)
    df_filtered,    \* the filtered view
    widgets,        \* the sidebar's selections: team, age_range, foot
    \* ---- the scraper
    spc,            \* main's position
    urls,           \* the team URLs, in order
    combinedArg,    \* whether --combined was given
    ui,             \* index of the URL being processed
    soup,           \* the listing page being scraped
    idx,            \* scrape_team's row index (1-based, next row)
    players,        \* scrape_team's players list
    files,          \* the output directory: file name -> rows written
    all_players,    \* main's list of per-team frames
    combined,       \* the combined CSV's rows, or <<>> before it is written
    stdout          \* what was printed: requests and saves, in order

vars == <<table, cleaned, prog, apc, listing, csv_files, selected_files, dfs,
          df_all, df_filtered, widgets, spc, urls, combinedArg, ui, soup, idx,
          players, files, all_players, combined, stdout>>

appVars == <<apc, listing, csv_files, selected_files, dfs, df_all,
             df_filtered, widgets>>
scrapeVars == <<spc, urls, combinedArg, ui, soup, idx, players, files,
                all_players, combined, stdout>>
cleanVars == <<table, cleaned>>

-----------------------------------------------------------------------------
(* Bounds of the model *)

\* longest enumerated cell text
MaxLen == 3
\* most columns of an enumerated header
MaxCols == 2
\* most files the user selects
MaxSelected == 2
\* most team URLs of a run
MaxUrls == 2

-----------------------------------------------------------------------------
(* Characters and text *)

Digit == {"0", "1", "2", "3", "4", "5", "6", "7", "8", "9"}

UpperCase == <<"A", "B", "C", "D", "E", "F", "G", "H", "I", "J", "K", "L", "M",
               "N", "O", "P", "Q", "R", "S", "T", "U", "V", "W", "X", "Y", "Z">>
LowerCase == <<"a", "b", "c", "d", "e", "f", "g", "h", "i", "j", "k", "l", "m",
               "n", "o", "p", "q", "r", "s", "t", "u", "v", "w", "x", "y", "z">>

Range(s) == {s[i] : i \in DOMAIN s}

\* the characters of the model in code-point order
CodePoints == <<" ", "!", "(", ")", ",", "-", ".", "/">>
              \o <<"0", "1", "2", "3", "4", "5", "6", "7", "8", "9">>
              \o UpperCase \o <<"_">> \o LowerCase \o <<"€">>

Ord(c) == CHOOSE i \in DOMAIN CodePoints : CodePoints[i] = c

\* str.lower() on one character
LowerChar(c) ==
    IF \E i \in DOMAIN UpperCase : UpperCase[i] = c
    THEN LowerCase[CHOOSE i \in DOMAIN UpperCase : UpperCase[i] = c]
    ELSE c

\* str.lower()
Lower(s) == [i \in DOMAIN s |-> LowerChar(s[i])]

\* str.strip(): leading and trailing whitespace removed
RECURSIVE LStrip(_)
LStrip(s) == IF s # <<>> /\ Head(s) = " " THEN LStrip(Tail(s)) ELSE s

RECURSIVE RStrip(_)
RStrip(s) ==
    IF s # <<>> /\ s[Len(s)] = " " THEN RStrip(SubSeq(s, 1, Len(s) - 1)) ELSE s

Strip(s) == RStrip(LStrip(s))

\* str.endswith(suffix)
EndsWith(s, suffix) ==
    /\ Len(s) >= Len(suffix)
    /\ SubSeq(s, Len(s) - Len(suffix) + 1, Len(s)) = suffix

\* str.replace(old, new) for a one-character old
RECURSIVE Replace(_, _, _)
Replace(s, old, new) ==
    IF s = <<>> THEN <<>>
    ELSE (IF Head(s) = old THEN new ELSE <<Head(s)>>)
         \o Replace(Tail(s), old, new)

\* s < t as Python compares str: by code point, a prefix first
RECURSIVE StrLess(_, _)
StrLess(s, t) ==
    IF t = <<>> THEN FALSE
    ELSE IF s = <<>> THEN TRUE
    ELSE IF Head(s) = Head(t) THEN StrLess(Tail(s), Tail(t))
    ELSE Ord(Head(s)) < Ord(Head(t))

\* sorted(S) for a set of text
RECURSIVE Sorted(_)
Sorted(S) ==
    IF S = {} THEN <<>>
    ELSE LET least == CHOOSE x \in S : \A y \in S \ {x} : StrLess(x, y)
         IN  <<least>> \o Sorted(S \ {least})

\* the texts over alphabet A of length at most n
RECURSIVE TextsUpTo(_, _)
TextsUpTo(A, n) ==
    IF n = 0 THEN {<<>>}
    ELSE LET shorter == TextsUpTo(A, n - 1)
         IN  shorter \cup {Append(s, c) : s \in shorter, c \in A}

-----------------------------------------------------------------------------
(* Numbers: exact decimals, and NaN *)

\* a missing value (NaN) of a numeric column
NaN == [nan |-> TRUE, neg |-> FALSE, ip |-> <<>>, fp |-> <<>>]

\* a missing value (NaN) of a text column: an empty CSV cell, or no match of
\* str.extract
NA == <<"<NaN>">>

RECURSIVE StripLeadingZeros(_)
StripLeadingZeros(d) ==
    IF d # <<>> /\ Head(d) = "0" THEN StripLeadingZeros(Tail(d)) ELSE d

RECURSIVE StripTrailingZeros(_)
StripTrailingZeros(d) ==
    IF d # <<>> /\ d[Len(d)] = "0"
    THEN StripTrailingZeros(SubSeq(d, 1, Len(d) - 1)) ELSE d

\* the number with integer digits ip and fraction digits fp, in canonical
\* form: no leading zero before and no trailing zero after the point
Dec(neg, ip, fp) ==
    LET i == StripLeadingZeros(ip)
        f == StripTrailingZeros(fp)
    IN  [nan |-> FALSE, neg |-> neg /\ (i # <<>> \/ f # <<>>), ip |-> i, fp |-> f]

Zero == Dec(FALSE, <<>>, <<>>)

\* x > 3 for a non-negative x; a comparison with NaN is False
GreaterThan3(x) ==
    /\ ~x.nan
    /\ ~x.neg
    /\ \/ Len(x.ip) >= 2
       \/ Len(x.ip) = 1 /\ Ord(x.ip[1]) > Ord("3")
       \/ Len(x.ip) = 1 /\ x.ip[1] = "3" /\ x.fp # <<>>

\* x / 100
Div100(x) ==
    IF x.nan THEN x
    ELSE LET padded == <<"0", "0">> \o x.ip
             n == Len(padded)
         IN  Dec(x.neg, SubSeq(padded, 1, n - 2),
                 SubSeq(padded, n - 1, n) \o x.fp)

\* pd.to_numeric(s, errors="coerce") on one text: an optional sign, digits
\* with at most one point and at least one digit; anything else is NaN
ToNumeric(s) ==
    IF s = NA THEN NaN
    ELSE
    LET signed == s # <<>> /\ Head(s) \in {"-", "+"}
        body == IF signed THEN Tail(s) ELSE s
        dots == {i \in DOMAIN body : body[i] = "."}
        wellFormed ==
            /\ \A i \in DOMAIN body : body[i] \in Digit \cup {"."}
            /\ Cardinality(dots) <= 1
            /\ \E i \in DOMAIN body : body[i] \in Digit
        p == IF dots = {} THEN Len(body) + 1 ELSE CHOOSE i \in dots : TRUE
    IN  IF wellFormed
        THEN Dec(signed /\ Head(s) = "-", SubSeq(body, 1, p - 1),
                 SubSeq(body, p + 1, Len(body)))
        ELSE NaN

\* Series.fillna(value) on one cell
FillNa(x, value) == IF x = NaN THEN value ELSE x

-----------------------------------------------------------------------------
(* load_and_clean_csv *)

\* text constants of the code
T_name == <<"n", "a", "m", "e">>
T_player == <<"p", "l", "a", "y", "e", "r">>
T_player_name == <<"p", "l", "a", "y", "e", "r", " ", "n", "a", "m", "e">>
T_age == <<"a", "g", "e">>
T_height == <<"h", "e", "i", "g", "h", "t">>
T_foot == <<"f", "o", "o", "t">>
T_market_value ==
    <<"m", "a", "r", "k", "e", "t", "_", "v", "a", "l", "u", "e">>
T_market_value_sp ==
    <<"m", "a", "r", "k", "e", "t", " ", "v", "a", "l", "u", "e">>
T_value == <<"v", "a", "l", "u", "e">>
T_team == <<"t", "e", "a", "m">>
T_NA == <<"N", "/", "A">>
T_nan == <<"n", "a", "n">>
T_All == <<"A", "l", "l">>

\* the canonical fields in the order col_map is filled, and their aliases
Keys == <<T_name, T_age, T_height, T_foot, T_market_value>>

Aliases(key) ==
    CASE key = T_name -> <<T_name, T_player, T_player_name>>
      [] key = T_age -> <<T_age>>
      [] key = T_height -> <<T_height>>
      [] key = T_foot -> <<T_foot>>
      [] key = T_market_value -> <<T_market_value, T_market_value_sp, T_value>>

\* no column found
None == <<"<None>">>

\* df.columns = [c.strip() for c in df.columns]
StripColumns(columns) == [i \in DOMAIN columns |-> Strip(columns[i])]

\* cols = {c.lower(): c for c in df.columns}: a later column replaces an
\* earlier one of the same lower-case name
ColsKeys(columns) == {Lower(columns[i]) : i \in DOMAIN columns}

ColsGet(columns, k) ==
    LET last == CHOOSE i \in DOMAIN columns :
                    /\ Lower(columns[i]) = k
                    /\ \A j \in DOMAIN columns : Lower(columns[j]) = k => j <= i
    IN  columns[last]

\* find_col(names)
find_col_reversed(columns, names) ==
    LET hits == {i \in DOMAIN names : names[i] \in ColsKeys(columns)}
    IN  IF hits = {} THEN None
        ELSE ColsGet(columns, names[CHOOSE i \in hits : \A j \in hits : j <= i])

find_col(columns, names) ==
    LET hits == {i \in DOMAIN names : names[i] \in ColsKeys(columns)}
    IN  IF hits = {} THEN None
        ELSE ColsGet(columns, names[CHOOSE i \in hits : \A j \in hits : i <= j])

\* one row of the frame as a function from column name to cell; of two
\* columns of one name the row keeps the later
RowCells(columns, row) ==
    [c \in Range(columns) |->
        row[CHOOSE i \in DOMAIN columns :
                /\ columns[i] = c
                /\ \A j \in DOMAIN columns : columns[j] = c => j <= i]]

\* df[key] = value on one row
SetCell(cells, key, value) ==
    [c \in DOMAIN cells \cup {key} |-> IF c = key THEN value ELSE cells[c]]

\* for key, col in col_map.items(): df[key] = "N/A" or df[col], in key
\* order; col_map was computed before the loop
RECURSIVE CopyColumns(_, _, _)
CopyColumns(cells, col_map, k) ==
    IF k > Len(Keys) THEN cells
    ELSE LET key == Keys[k]
             col == col_map[k]
         IN  CopyColumns(
                 SetCell(cells, key, IF col = None THEN T_NA ELSE cells[col]),
                 col_map, k + 1)

\* Series.astype(str) on one cell
AsStr(cell) == IF cell = NA THEN T_nan ELSE cell

\* the market value cleanup of one cell
MarketValueKeepDash(cell) ==
    LET mv0 == AsStr(cell)
        mv1 == Replace(mv0, "€", <<>>)
        mv3 == Replace(mv1, "m", <<"0", "0", "0", "0", "0", "0">>)
        mv4 == Replace(mv3, "k", <<"0", "0", "0">>)
        mv5 == Replace(mv4, " ", <<>>)
    IN  FillNa(ToNumeric(mv5), Zero)

MarketValueNumeric(cell) ==
    LET mv0 == AsStr(cell)
        mv1 == Replace(mv0, "€", <<>>)
        mv2 == Replace(mv1, "-", <<"0">>)
        mv3 == Replace(mv2, "m", <<"0", "0", "0", "0", "0", "0">>)
        mv4 == Replace(mv3, "k", <<"0", "0", "0">>)
        mv5 == Replace(mv4, " ", <<>>)
    IN  FillNa(ToNumeric(mv5), Zero)

\* the end of the run of digits that starts at i
RECURSIVE RunEnd(_, _)
RunEnd(s, i) ==
    IF i < Len(s) /\ s[i + 1] \in Digit THEN RunEnd(s, i + 1) ELSE i

Least(S) == CHOOSE i \in S : \A j \in S : i <= j

\* str.extract(r"(\d+)")[0] on one text: the leftmost match, greedy
ExtractDigits(s) ==
    LET starts == {i \in DOMAIN s : s[i] \in Digit}
    IN  IF starts = {} THEN NA
        ELSE SubSeq(s, Least(starts), RunEnd(s, Least(starts)))

\* str.extract(r"(\d+[.,]\d+)")[0] on one text
ExtractMeters(s) ==
    LET starts == {i \in DOMAIN s :
                      /\ s[i] \in Digit
                      /\ RunEnd(s, i) + 2 <= Len(s)
                      /\ s[RunEnd(s, i) + 1] \in {".", ","}
                      /\ s[RunEnd(s, i) + 2] \in Digit}
    IN  IF starts = {} THEN NA
        ELSE LET i == Least(starts)
             IN  SubSeq(s, i, RunEnd(s, RunEnd(s, i) + 2))

\* str.extract(r"(\d{3})")[0] on one text
ExtractCmAnyRun(s) == ExtractDigits(s)

ExtractCm(s) ==
    LET starts == {i \in DOMAIN s :
                      /\ i + 2 <= Len(s)
                      /\ \A j \in i .. i + 2 : s[j] \in Digit}
    IN  IF starts = {} THEN NA
        ELSE SubSeq(s, Least(starts), Least(starts) + 2)

\* the age of one cell
AgeNumericFillZero(cell) == FillNa(ToNumeric(ExtractDigits(AsStr(cell))), Zero)

AgeNumeric(cell) == ToNumeric(ExtractDigits(AsStr(cell)))

\* the height of one cell, in meters
HeightNumeric(cell) ==
    LET h == AsStr(cell)
        h_m == ExtractMeters(h)
        h_cm == ExtractCm(h)
        height_val == IF h_m = NA THEN h_cm ELSE h_m
        dotted == IF height_val = NA THEN NA
                  ELSE Replace(height_val, ",", <<".">>)
        x == ToNumeric(dotted)
    IN  IF GreaterThan3(x) THEN Div100(x) ELSE x

\* load_and_clean_csv(path), from the frame pd.read_csv(path) returned: a
\* sequence of rows, each its cells and the three derived numbers
load_and_clean_csv(tab) ==
    LET columns == StripColumns(tab.columns)
        col_map == [k \in DOMAIN Keys |-> find_col(columns, Aliases(Keys[k]))]
    IN  [r \in DOMAIN tab.data |->
            LET cells == CopyColumns(RowCells(columns, tab.data[r]), col_map, 1)
            IN  [cells |-> cells,
                 market_value_numeric |-> MarketValueNumeric(cells[T_market_value]),
                 age_numeric |-> AgeNumeric(cells[T_age]),
                 height_numeric |-> HeightNumeric(cells[T_height])]]

-----------------------------------------------------------------------------
(* Inputs of load_and_clean_csv: the frames pd.read_csv may return.  A cell *)
(* is the text astype(str) gives for it, or NA for an empty CSV cell.      *)

H_Value == <<"V", "a", "l", "u", "e">>
H_Age == <<"A", "g", "e">>
H_Height == <<"H", "e", "i", "g", "h", "t">>

HeaderNames ==
    { T_name, <<"N", "A", "M", "E">>,
      <<"P", "l", "a", "y", "e", "r", " ", "N", "a", "m", "e">>,
      <<" ", "p", "l", "a", "y", "e", "r", " ">>,
      <<"P", "l", "a", "y", "e", "r">>,
      H_Age, T_age, H_Height, <<"f", "o", "o", "t", " ">>, H_Value,
      <<"M", "a", "r", "k", "e", "t", " ", "v", "a", "l", "u", "e">>,
      T_market_value, <<"C", "l", "u", "b">> }

\* the cell of the i-th column of an enumerated header
CellOf(i) == <<"v", CodePoints[8 + i]>>

\* pd.read_csv renames a repeated column name, so the names differ; the
\* frames here also differ once stripped
Headers ==
    {h \in UNION {[1 .. n -> HeaderNames] : n \in 1 .. MaxCols} :
        \A i, j \in DOMAIN h : i # j => Strip(h[i]) # Strip(h[j])}

HeaderTables ==
    {[columns |-> h, data |-> << [i \in DOMAIN h |-> CellOf(i)] >>] : h \in Headers}

S_EuroMillions == <<"€", "1", ".", "5", "m">>
S_185 == <<"1", "8", "5">>
S_185m == <<"1", ",", "8", "5", " ", "m">>
S_75 == <<"7", "5">>
S_U19 == <<"U", "1", "9", " ", "(", "1", "7", ")">>
S_Dash == <<"-">>

Samples == {S_EuroMillions, S_185, S_185m, S_75, S_U19, S_Dash, T_NA, NA}

MVAlphabet == {"0", "1", "5", "€", "-", "m", "k", ".", ",", " "}
AgeAlphabet == {"0", "1", "9", "U", " ", "("}
HeightAlphabet == {"1", "8", "5", ".", ",", " ", "m"}

OneCell(h, t) == [columns |-> <<h>>, data |-> << <<t>> >>]

TextTables ==
    {OneCell(H_Value, t) : t \in TextsUpTo(MVAlphabet, MaxLen) \cup Samples}
    \cup {OneCell(H_Age, t) :
              t \in TextsUpTo(AgeAlphabet, MaxLen + 1) \cup Samples}
    \cup {OneCell(H_Height, t) :
              t \in TextsUpTo(HeightAlphabet, MaxLen + 1) \cup Samples}

CleanInputs == HeaderTables \cup TextTables

NoTable == [columns |-> <<>>, data |-> <<>>]

\* before the sidebar's filters are drawn
NoWidgets == [team |-> <<>>, age_range |-> <<0, 0>>, foot |-> <<>>]

\* before a listing page is fetched
NoSoup == [team_name |-> <<>>, rows |-> <<>>]

-----------------------------------------------------------------------------
(* The idle values of the variables of the programs that do not run *)

AppIdle ==
    /\ apc = "idle" /\ listing = {} /\ csv_files = <<>>
    /\ selected_files = <<>> /\ dfs = <<>> /\ df_all = <<>>
    /\ df_filtered = <<>> /\ widgets = NoWidgets

ScrapeIdle ==
    /\ spc = "idle" /\ urls = <<>> /\ combinedArg = FALSE /\ ui = 0
    /\ soup = NoSoup /\ idx = 0 /\ players = <<>> /\ files = <<>>
    /\ all_players = <<>> /\ combined = <<>> /\ stdout = <<>>

-----------------------------------------------------------------------------
(* load_and_clean_csv on every input *)

CleanInit ==
    /\ prog = "clean"
    /\ table \in CleanInputs
    /\ cleaned = <<>>
    /\ AppIdle /\ ScrapeIdle

CleanLoad ==
    /\ prog = "clean"
    /\ cleaned = <<>>
    /\ cleaned' = load_and_clean_csv(table)
    /\ UNCHANGED <<table, prog, appVars, scrapeVars>>

CleanNext == CleanLoad

CleanSpec == CleanInit /\ [][CleanNext]_vars

-----------------------------------------------------------------------------
(* The dashboard script, app_afcon_2025.py *)

\* os.path.join(folder, f)
Join(folder, f) == folder \o <<"/">> \o f

\* os.path.basename(p): what follows the last "/"
Basename(p) ==
    LET slashes == {i \in DOMAIN p : p[i] = "/"}
    IN  IF slashes = {} THEN p
        ELSE SubSeq(p, (CHOOSE i \in slashes : \A j \in slashes : j <= i) + 1,
                    Len(p))

\* os.path.splitext(fname)[0]: the name up to its last ".", unless only
\* "." precede that one
SplitExtRoot(fname) ==
    LET dots == {i \in DOMAIN fname : fname[i] = "."}
        last == CHOOSE i \in dots : \A j \in dots : j <= i
    IN  IF dots = {} \/ (\A j \in 1 .. last - 1 : fname[j] = ".") THEN fname
        ELSE SubSeq(fname, 1, last - 1)

DEFAULT_DATA_DIR == <<".", "/", "d", "a", "t", "a">>

F_a == <<"a", ".", "c", "s", "v">>
F_B == <<"B", ".", "C", "S", "V">>
F_dot == <<".", "c", "s", "v">>
F_txt == <<"r", ".", "t", "x", "t">>

FileNames == {F_a, F_B, F_dot, F_txt}

W_right == <<"r", "i", "g", "h", "t">>
W_left == <<"l", "e", "f", "t">>

\* what pd.read_csv returns for each file of the folder
ReadCsv(path) ==
    CASE Basename(path) = F_a ->
           [columns |-> << <<"N", "a", "m", "e">>, H_Age, <<"F", "o", "o", "t">>,
                           H_Value >>,
            data |-> << << <<"A", "l", "i">>, <<"2", "4">>, W_right, S_EuroMillions >>,
                        << <<"B", "o">>, NA, W_left, S_Dash >>,
                        << <<"C", "y">>, <<"2", "6">>, W_left,
                           <<"€", "5", "0", "0", "k">> >> >>]
      [] Basename(path) = F_B ->
           [columns |-> << T_player, T_age >>,
            data |-> << << <<"D", "i">>, S_U19 >> >>]
      [] OTHER ->
           [columns |-> << <<"N", "A", "M", "E">>, H_Height, T_foot >>,
            data |-> << << <<"E", "d">>, S_185, W_right >>,
                        << <<"F", "a">>, S_185m, NA >> >>]

\* the sequences of distinct elements of S of length at most n
DistinctSeqs(S, n) ==
    {q \in UNION {[1 .. k -> S] : k \in 0 .. n} :
        \A i, j \in DOMAIN q : i # j => q[i] # q[j]}

\* pd.concat(frames, ignore_index=True)
RECURSIVE ConcatReversed(_)
ConcatReversed(frames) ==
    IF frames = <<>> THEN <<>> ELSE ConcatReversed(Tail(frames)) \o Head(frames)

RECURSIVE Concat(_)
Concat(frames) ==
    IF frames = <<>> THEN <<>> ELSE Head(frames) \o Concat(Tail(frames))

\* int(x) of a decimal that is not negative
RECURSIVE DigitsToNat(_)
DigitsToNat(d) ==
    IF d = <<>> THEN 0
    ELSE 10 * DigitsToNat(SubSeq(d, 1, Len(d) - 1)) + (Ord(d[Len(d)]) - Ord("0"))

ToInt(x) == DigitsToNat(x.ip)

\* lo <= x <= hi for integers lo and hi; a comparison with NaN is False
Between(x, lo, hi) ==
    /\ ~x.nan /\ ~x.neg
    /\ ToInt(x) >= lo
    /\ \/ ToInt(x) < hi
       \/ ToInt(x) = hi /\ x.fp = <<>>

AppInit ==
    /\ prog = "app"
    /\ apc = "list"
    /\ listing \in SUBSET FileNames
    /\ csv_files = <<>> /\ selected_files = <<>> /\ dfs = <<>>
    /\ df_all = <<>> /\ df_filtered = <<>> /\ widgets = NoWidgets
    /\ table = NoTable /\ cleaned = <<>>
    /\ ScrapeIdle

\* list_csv_files(data_dir), and the stop on an empty list
list_csv_files ==
    /\ prog = "app" /\ apc = "list"
    /\ LET names == Sorted({f \in listing :
                               EndsWith(Lower(f), <<".", "c", "s", "v">>)})
       IN  /\ csv_files' = [i \in DOMAIN names |-> Join(DEFAULT_DATA_DIR, names[i])]
           /\ apc' = IF names = <<>> THEN "stopped" ELSE "select"
    /\ UNCHANGED <<listing, selected_files, dfs, df_all, df_filtered, widgets,
                   prog, cleanVars, scrapeVars>>

\* the multiselect over the display names, and the stop on no selection
SelectFiles ==
    /\ prog = "app" /\ apc = "select"
    /\ \E sel \in DistinctSeqs({Basename(csv_files[i]) : i \in DOMAIN csv_files},
                                MaxSelected) :
          /\ selected_files' = sel
          /\ apc' = IF sel = <<>> THEN "stopped" ELSE "load"
    /\ UNCHANGED <<listing, csv_files, dfs, df_all, df_filtered, widgets,
                   prog, cleanVars, scrapeVars>>

\* df["team"] = os.path.splitext(fname)[0]
TagTeam(frame, fname) ==
    [r \in DOMAIN frame |->
        [frame[r] EXCEPT !.cells = SetCell(@, T_team, SplitExtRoot(fname))]]

\* dfs.append(df)
AppendFrame(frames, frame) == Append(frames, frame)

\* one turn of the loop over selected_files
LoadFile ==
    /\ prog = "app" /\ apc = "load"
    /\ Len(dfs) < Len(selected_files)
    /\ LET fname == selected_files[Len(dfs) + 1]
           paths == {i \in DOMAIN csv_files : Basename(csv_files[i]) = fname}
       IN  \* selected_files are base names of csv_files: full_path is found
           IF paths = {} THEN FALSE
           ELSE dfs' = AppendFrame(dfs,
                    TagTeam(load_and_clean_csv(ReadCsv(csv_files[Least(paths)])), fname))
    /\ UNCHANGED <<apc, listing, csv_files, selected_files, df_all, df_filtered,
                   widgets, prog, cleanVars, scrapeVars>>

\* df_all = pd.concat(dfs, ignore_index=True)
ConcatFrames ==
    /\ prog = "app" /\ apc = "load"
    /\ Len(dfs) = Len(selected_files)
    /\ df_all' = Concat(dfs)
    /\ apc' = "filter"
    /\ UNCHANGED <<listing, csv_files, selected_files, dfs, df_filtered,
                   widgets, prog, cleanVars, scrapeVars>>

\* the team filter
ByTeam(frame, team) ==
    IF team # T_All
    THEN LET keep(row) == row.cells[T_team] = team IN SelectSeq(frame, keep)
    ELSE frame

Ages(frame) ==
    {ToInt(frame[r].age_numeric) : r \in {q \in DOMAIN frame : ~frame[q].age_numeric.nan}}

Min(S) == CHOOSE x \in S : \A y \in S : x <= y
Max(S) == CHOOSE x \in S : \A y \in S : y <= x

\* the age filter, applied when some age is present
ByAge(frame, range) ==
    IF Ages(frame) # {}
    THEN LET keep(row) == Between(row.age_numeric, range[1], range[2])
         IN  SelectSeq(frame, keep)
    ELSE frame

\* the foot filter
ByFoot(frame, foot) ==
    IF foot # T_All
    THEN LET keep(row) == row.cells[T_foot] = foot IN SelectSeq(frame, keep)
    ELSE frame

\* the slider's default value: (min_age, max_age), or (0, 0) with no slider
DefaultRange(frame) ==
    IF Ages(frame) # {} THEN <<Min(Ages(frame)), Max(Ages(frame))>> ELSE <<0, 0>>

\* the values the slider can return
Ranges(frame) ==
    IF Ages(frame) # {}
    THEN {r \in (Min(Ages(frame)) .. Max(Ages(frame)))
                   \X (Min(Ages(frame)) .. Max(Ages(frame))) : r[1] <= r[2]}
    ELSE {<<0, 0>>}

\* the filters of the sidebar, each widget returning one of its options
ApplyFilters ==
    /\ prog = "app" /\ apc = "filter"
    /\ LET teams == {df_all[r].cells[T_team] : r \in DOMAIN df_all}
           feet == {df_all[r].cells[T_foot] : r \in DOMAIN df_all} \ {NA}
       IN  \E selected_team \in {T_All} \cup teams :
           \E selected_foot \in {T_All} \cup feet :
           \E age_range \in Ranges(ByTeam(df_all, selected_team)) :
              /\ widgets' = [team |-> selected_team, age_range |-> age_range,
                             foot |-> selected_foot]
              /\ df_filtered' =
                    ByFoot(ByAge(ByTeam(df_all, selected_team), age_range),
                           selected_foot)
    /\ apc' = "done"
    /\ UNCHANGED <<listing, csv_files, selected_files, dfs, df_all, prog,
                   cleanVars, scrapeVars>>

-----------------------------------------------------------------------------
(* The scraper, scrape_tm.py *)

\* team_name is cut to this length
TeamNameMax == 50

Word == Digit \cup Range(UpperCase) \cup Range(LowerCase) \cup {"_"}

\* re.sub(r"\W+", "_", title): every maximal run of non-word characters
\* becomes one "_"
RECURSIVE SubNonWord(_)
SubNonWord(s) ==
    IF s = <<>> THEN <<>>
    ELSE IF Head(s) \in Word THEN <<Head(s)>> \o SubNonWord(Tail(s))
    ELSE IF Len(s) > 1 /\ s[2] \notin Word THEN SubNonWord(Tail(s))
    ELSE <<"_">> \o SubNonWord(Tail(s))

\* str.strip("_")
RECURSIVE StripUnderscores(_)
StripUnderscores(s) ==
    IF s # <<>> /\ Head(s) = "_" THEN StripUnderscores(Tail(s))
    ELSE IF s # <<>> /\ s[Len(s)] = "_"
    THEN StripUnderscores(SubSeq(s, 1, Len(s) - 1))
    ELSE s

\* re.sub(r"\W+", "_", title).strip("_")[:50]
TeamName(title) ==
    LET t == StripUnderscores(SubNonWord(title))
    IN  SubSeq(t, 1, IF Len(t) < TeamNameMax THEN Len(t) ELSE TeamNameMax)

\* soup.title is None: the page has no <title>
NoTitle == <<"<None>">>
\* soup.title.string is None: a <title> with no text, or with tags in it
NoTitleString == <<"<title/>">>

\* a row of the roster table: which cells it has and what they hold, and
\* what the player's detail page gives: "raise" when get_soup raises,
\* otherwise the height, foot and debut the heuristics find in it
Player(name, age, market_value) ==
    [name_td |-> TRUE, name |-> name, href |-> TRUE, nzent |-> 2, age |-> age,
     position |-> "Midfield", mv_tag |-> TRUE, market_value |-> market_value,
     detail |-> "ok", height |-> "1,85 m", foot |-> "right", debut |-> "N/A"]

\* the pages behind the URLs: whether the listing fetch raises, the title,
\* and the roster table if there is one
Web ==
    << \* 1: a team with two players, the second one's detail page failing
       [fetch |-> "ok", title |-> <<"A", " ", "-", " ", "F", "C">>, table |-> TRUE,
        rows |-> << Player("Ali", "24", "€1.50m"),
                    [Player("Bo", "31", "€500k") EXCEPT !.detail = "raise"] >>],
       \* 2: a team with one player whose row has no link and no value cell
       [fetch |-> "ok", title |-> <<"B", "!">>, table |-> TRUE,
        rows |-> << [Player("Cy", "19", "") EXCEPT !.href = FALSE, !.nzent = 1,
                                                  !.mv_tag = FALSE] >>],
       \* 3: another page of the team of page 1, titled with other punctuation
       [fetch |-> "ok", title |-> <<"A", "/", "F", "C", ".">>, table |-> TRUE,
        rows |-> << Player("Di", "22", "-") >>],
       \* 4: no <title> and no roster table
       [fetch |-> "ok", title |-> NoTitle, table |-> FALSE, rows |-> <<>>],
       \* 5: an empty <title> and no roster table
       [fetch |-> "ok", title |-> NoTitleString, table |-> FALSE, rows |-> <<>>],
       \* 6: the listing fetch fails after its retries
       [fetch |-> "error", title |-> NoTitle, table |-> FALSE, rows |-> <<>>],
       \* 7: a title without a word character, one player
       [fetch |-> "ok", title |-> <<"!", "!">>, table |-> TRUE,
        rows |-> << Player("Ed", "27", "€2.00m") >>],
       \* 8: a roster table without player rows
       [fetch |-> "ok", title |-> <<"C">>, table |-> TRUE, rows |-> <<>>] >>

NoDetails == [raised |-> FALSE, height |-> "N/A", foot |-> "N/A", debut |-> "N/A"]

\* get_player_details(session, player_url); raised: the exception left it
get_player_details_no_except(row) ==
    IF row.detail = "raise" THEN [NoDetails EXCEPT !.raised = TRUE]
    ELSE [raised |-> FALSE, height |-> row.height, foot |-> row.foot,
          debut |-> row.debut]

get_player_details(row) ==
    IF row.detail = "raise" THEN NoDetails
    ELSE [raised |-> FALSE, height |-> row.height, foot |-> row.foot,
          debut |-> row.debut]

\* the record scrape_team builds from one row and its details
PlayerRecord(row, details) ==
    [name |-> IF row.name_td THEN row.name ELSE "N/A",
     age |-> IF row.nzent > 1 THEN row.age ELSE "N/A",
     position |-> IF row.nzent > 0 THEN row.position ELSE "",
     height |-> details.height,
     foot |-> details.foot,
     debut |-> details.debut,
     market_value |-> IF row.mv_tag THEN row.market_value ELSE "N/A"]

\* df["team"] = team_name
WithTeam(frame, team) ==
    [r \in DOMAIN frame |->
        [name |-> frame[r].name, age |-> frame[r].age,
         position |-> frame[r].position, height |-> frame[r].height,
         foot |-> frame[r].foot, debut |-> frame[r].debut,
         market_value |-> frame[r].market_value, team |-> team]]

\* f"{team_name}.csv"
OutName(team) == team \o <<".", "c", "s", "v">>

\* df.to_csv(out_name): the file is created or replaced
WriteFile(dir, out_name, rows) ==
    [f \in DOMAIN dir \cup {out_name} |-> IF f = out_name THEN rows ELSE dir[f]]

ScrapeInit ==
    /\ prog = "scrape"
    /\ spc = "fetch"
    /\ urls \in UNION {[1 .. n -> DOMAIN Web] : n \in 1 .. MaxUrls}
    /\ combinedArg \in BOOLEAN
    /\ ui = 1 /\ soup = NoSoup /\ idx = 0 /\ players = <<>>
    /\ files = <<>> /\ all_players = <<>> /\ combined = <<>> /\ stdout = <<>>
    /\ table = NoTable /\ cleaned = <<>>
    /\ AppIdle

\* scrape_team up to its loop: the listing page is fetched, the team name
\* made of the title, the roster table looked for.  A failed fetch and a
\* title without text raise, and nothing in main catches; without a table
\* scrape_team returns (None, []) and main takes the next URL
FetchTeamPage ==
    /\ prog = "scrape" /\ spc = "fetch" /\ ui <= Len(urls)
    /\ stdout' = Append(stdout, [ev |-> "fetch", src |-> ui, name |-> <<>>, n |-> 0])
    /\ players' = <<>>
    /\ LET page == Web[urls[ui]]
       IN  IF page.fetch = "error" \/ page.title = NoTitleString
           THEN spc' = "crashed" /\ UNCHANGED <<ui, soup, idx>>
           ELSE IF ~page.table
           THEN spc' = "fetch" /\ ui' = ui + 1 /\ soup' = NoSoup /\ idx' = 0
           ELSE /\ spc' = "rows"
                /\ soup' = [team_name |->
                               TeamName(IF page.title = NoTitle
                                        THEN T_team ELSE page.title),
                            rows |-> page.rows]
                /\ idx' = 1
                /\ ui' = ui
    /\ UNCHANGED <<urls, combinedArg, files, all_players, combined, prog,
                   cleanVars, appVars>>

\* one turn of scrape_team's loop: the row's cells, the detail page, the
\* record; an exception in the turn skips the row
ScrapeRow ==
    /\ prog = "scrape" /\ spc = "rows" /\ idx <= Len(soup.rows)
    /\ LET row == soup.rows[idx]
           details == IF row.name_td /\ row.href THEN get_player_details(row)
                      ELSE NoDetails
       IN  players' = IF details.raised THEN players
                      ELSE Append(players, PlayerRecord(row, details))
    /\ idx' = idx + 1
    /\ UNCHANGED <<spc, urls, combinedArg, ui, soup, files, all_players,
                   combined, stdout, prog, cleanVars, appVars>>

\* scrape_team returns, and main saves the team: with a team name and
\* players the team's CSV is written and the frame kept for the combined CSV
SaveTeam ==
    /\ prog = "scrape" /\ spc = "rows" /\ idx > Len(soup.rows)
    /\ IF soup.team_name # <<>> /\ players # <<>>
       THEN /\ files' = WriteFile(files, OutName(soup.team_name), players)
            /\ stdout' = Append(stdout, [ev |-> "saved", src |-> ui,
                                         name |-> OutName(soup.team_name),
                                         n |-> Len(players)])
            /\ all_players' = Append(all_players, WithTeam(players, soup.team_name))
       ELSE UNCHANGED <<files, stdout, all_players>>
    /\ spc' = "fetch"
    /\ ui' = ui + 1
    /\ idx' = 0
    /\ UNCHANGED <<urls, combinedArg, soup, players, combined, prog,
                   cleanVars, appVars>>

\* after the loop: the combined CSV, when asked for and there is a frame
Combine ==
    /\ prog = "scrape" /\ spc = "fetch" /\ ui > Len(urls)
    /\ combined' = IF combinedArg /\ all_players # <<>>
                   THEN Concat(all_players) ELSE combined
    /\ spc' = "done"
    /\ UNCHANGED <<urls, combinedArg, ui, soup, idx, players, files,
                   all_players, stdout, prog, cleanVars, appVars>>

\* the process is ended from outside while it runs
Interrupt ==
    /\ prog = "scrape" /\ spc \in {"fetch", "rows"}
    /\ spc' = "interrupted"
    /\ UNCHANGED <<urls, combinedArg, ui, soup, idx, players, files,
                   all_players, combined, stdout, prog, cleanVars, appVars>>

-----------------------------------------------------------------------------
(* The specification of the two programs: a run is one of them *)

Init == AppInit \/ ScrapeInit

Next ==
    \/ list_csv_files
    \/ SelectFiles
    \/ LoadFile
    \/ ConcatFrames
    \/ ApplyFilters
    \/ FetchTeamPage
    \/ ScrapeRow
    \/ SaveTeam
    \/ Combine
    \/ Interrupt

Spec == Init /\ [][Next]_vars

-----------------------------------------------------------------------------
(* Claims about load_and_clean_csv, checked under CleanSpec *)

Loaded == prog = "clean" /\ cleaned # <<>>

\* the frame has the single column h holding the text t
IsOneCell(h, t) == table = OneCell(h, t)

\* the cleaned row of a one-row frame
Row == cleaned[1]

D_1_85 == Dec(FALSE, <<"1">>, <<"8", "5">>)
D_0_75 == Dec(FALSE, <<>>, <<"7", "5">>)
D_19 == Dec(FALSE, <<"1", "9">>, <<>>)
D_1500000 == Dec(FALSE, <<"1", "5", "0", "0", "0", "0", "0">>, <<>>)

\* C1: a frame whose column "Value" holds "€1.5m", with no "Market value" or
\* "market_value" column, gets market_value "€1.5m" and
\* market_value_numeric 1500000.0.
C1_EuroMillions ==
    (Loaded /\ IsOneCell(H_Value, S_EuroMillions)) =>
        /\ Row.cells[T_market_value] = S_EuroMillions
        /\ Row.market_value_numeric = D_1500000

\* the case of C1 after load_and_clean_csv: the text resolves, and the number
\* is the 1.5 that "1.5000000" parses to
C1_Reached ==
    /\ Loaded /\ IsOneCell(H_Value, S_EuroMillions)
    /\ Row.cells[T_market_value] = S_EuroMillions
    /\ Row.market_value_numeric = Dec(FALSE, <<"1">>, <<"5">>)

\* the heights of the one-cell frames
HeightCase(t) == Loaded /\ IsOneCell(H_Height, t)

\* C2 as stated: "185" gives 1.85, "1,85 m" gives 1.85 and "75" gives 0.75:
\* a meters-form match first, otherwise a bare run of digits, and a value
\* above 3 divided by 100.
C2_HeightAsStated ==
    /\ HeightCase(S_185) => Row.height_numeric = D_1_85
    /\ HeightCase(S_185m) => Row.height_numeric = D_1_85
    /\ HeightCase(S_75) => Row.height_numeric = D_0_75

\* value / 100 when it is above 3
Meters(x) == IF GreaterThan3(x) THEN Div100(x) ELSE x

IsDigitAt(s, i) == i \in DOMAIN s /\ s[i] \in Digit

\* s[a..b] is digits, a separator, digits, and no longer run of digits on
\* either side
IsMetersForm(s, a, b) ==
    /\ 1 <= a /\ b <= Len(s)
    /\ ~IsDigitAt(s, a - 1) /\ ~IsDigitAt(s, b + 1)
    /\ \E p \in a + 1 .. b - 1 :
          /\ s[p] \in {".", ","}
          /\ \A i \in (a .. b) \ {p} : s[i] \in Digit

ThreeDigitsAt(s, i) == \A j \in i .. i + 2 : IsDigitAt(s, j)

\* C2 as amended: "185" gives 1.85, "1,85 m" gives 1.85 and "75" gives a
\* missing height: the leftmost meters-form decimal (a comma read as the
\* point) is taken first, otherwise the first three consecutive digits, a
\* text with neither is missing, and a value above 3 is divided by 100.
C2_Height ==
    /\ HeightCase(S_185) => Row.height_numeric = D_1_85
    /\ HeightCase(S_185m) => Row.height_numeric = D_1_85
    /\ HeightCase(S_75) => Row.height_numeric = NaN
    /\ (Loaded /\ table.columns = <<H_Height>> /\ table.data[1][1] # NA) =>
          LET h == table.data[1][1]
              x == Row.height_numeric
              forms == {ab \in (DOMAIN h) \X (DOMAIN h) : IsMetersForm(h, ab[1], ab[2])}
              threes == {i \in DOMAIN h : ThreeDigitsAt(h, i)}
          IN  /\ forms # {} =>
                    \E ab \in forms :
                        /\ \A cd \in forms : ab[1] <= cd[1]
                        /\ x = Meters(ToNumeric(
                                 Replace(SubSeq(h, ab[1], ab[2]), ",", <<".">>)))
              /\ (forms = {} /\ threes # {}) =>
                    \E i \in threes :
                        /\ \A j \in threes : i <= j
                        /\ x = Meters(Dec(FALSE, SubSeq(h, i, i + 2), <<>>))
              /\ (forms = {} /\ threes = {}) => x = NaN

\* the three heights of C2 have been computed, "75" being missing
C2_Reached == HeightCase(S_75) /\ Row.height_numeric = NaN

\* C3: for every market value text made of digits, "€", "-", "m", "k", ".",
\* "," and spaces, market_value_numeric is a number that is not negative;
\* "-" alone gives 0; a text that does not parse after the substitutions
\* (a comma, two points, or nothing that becomes a digit) gives 0.
C3_MarketValue ==
    (Loaded /\ table.columns = <<H_Value>> /\ table.data[1][1] # NA) =>
        LET s == table.data[1][1]
            x == Row.market_value_numeric
            count(c) == Cardinality({i \in DOMAIN s : s[i] = c})
        IN  /\ ~x.nan
            /\ ~x.neg
            /\ s = S_Dash => x = Zero
            /\ count(",") > 0 => x = Zero
            /\ count(".") > 1 => x = Zero
            /\ (\A i \in DOMAIN s : s[i] \in {"€", " ", ".", ","}) => x = Zero

\* a market value with a "-" in front of a digit has been cleaned
C3_Reached ==
    /\ Loaded /\ IsOneCell(H_Value, <<"-", "1", "k">>)
    /\ Row.market_value_numeric = Dec(FALSE, <<"0", "1", "0", "0", "0">>, <<>>)

\* C4: an age text with a digit gives the integer of its leftmost maximal
\* run of digits ("U19 (17)" gives 19); an age text with no digit, "N/A"
\* included, gives a missing age, never 0.
C4_Age ==
    /\ (Loaded /\ IsOneCell(H_Age, S_U19)) => Row.age_numeric = D_19
    /\ (Loaded /\ table.columns = <<H_Age>>) =>
          LET s == AsStr(table.data[1][1])
              x == Row.age_numeric
              digits == {i \in DOMAIN s : s[i] \in Digit}
          IN  /\ digits = {} => x = NaN /\ x # Zero
              /\ digits # {} =>
                    \E a \in digits : \E b \in digits :
                        /\ \A i \in digits : a <= i
                        /\ \A i \in a .. b : i \in digits
                        /\ ~IsDigitAt(s, b + 1)
                        /\ x = Dec(FALSE, SubSeq(s, a, b), <<>>)

\* "U19 (17)" has been cleaned to the age 19
C4_Reached ==
    Loaded /\ IsOneCell(H_Age, S_U19) /\ Row.age_numeric = D_19

\* the aliases of key that some source column matches once stripped and
\* lower-cased, as indices into the alias list
Matching(key) ==
    {i \in DOMAIN Aliases(key) :
        \E c \in DOMAIN table.columns :
            Lower(Strip(table.columns[c])) = Aliases(key)[i]}

\* C5: each canonical field is supplied by a source column matching the
\* first alias, in the list's order, that matches any stripped source column
\* name compared without case; with no match the field is "N/A"; so every
\* record has the five canonical columns.
C5_Columns ==
    Loaded =>
        \A r \in DOMAIN cleaned : \A k \in DOMAIN Keys :
            LET key == Keys[k]
                hits == Matching(key)
            IN  /\ key \in DOMAIN cleaned[r].cells
                /\ hits = {} => cleaned[r].cells[key] = T_NA
                /\ hits # {} =>
                      \E i \in hits :
                          /\ \A j \in hits : i <= j
                          /\ \E c \in DOMAIN table.columns :
                                /\ Lower(Strip(table.columns[c])) = Aliases(key)[i]
                                /\ cleaned[r].cells[key] = table.data[r][c]

\* a frame with the columns " player " and "NAME" has been cleaned: "name"
\* wins, from the second column
C5_Reached ==
    /\ Loaded
    /\ table.columns = << <<" ", "p", "l", "a", "y", "e", "r", " ">>,
                          <<"N", "A", "M", "E">> >>
    /\ Row.cells[T_name] = CellOf(2)
    /\ Row.cells[T_age] = T_NA

-----------------------------------------------------------------------------
(* Claims about the two programs, checked under Spec *)

\* the sum of the first j numbers of a sequence
RECURSIVE SumTo(_, _)
SumTo(lens, j) == IF j = 0 THEN 0 ELSE SumTo(lens, j - 1) + lens[j]

\* the frame pd.read_csv returned for the j-th selected file
Source(j) == ReadCsv(Join(DEFAULT_DATA_DIR, selected_files[j]))

\* name is tag followed by one extension, or has none and is the tag
IsStemOf(tag, name) ==
    \/ /\ tag = name
       /\ \A i \in 2 .. Len(name) : name[i] = "." => \A j \in 1 .. i : name[j] = "."
    \/ /\ Len(tag) < Len(name)
       /\ SubSeq(name, 1, Len(tag)) = tag
       /\ name[Len(tag) + 1] = "."
       /\ \A i \in Len(tag) + 2 .. Len(name) : name[i] # "."
       /\ \E i \in 1 .. Len(tag) : tag[i] # "."

\* the "saved" lines of the scraper's output, in order
Saved == LET isSaved(e) == e.ev = "saved" IN SelectSeq(stdout, isSaved)

\* C6 in the dashboard: df_all has the rows of the selected files, file after
\* file in the order of selection and row after row in each file's order,
\* each tagged with the name of its file without the extension.
C6_Dashboard ==
    (prog = "app" /\ apc \in {"filter", "done"}) =>
        LET lens == [j \in DOMAIN selected_files |-> Len(Source(j).data)]
        IN  /\ Len(df_all) = SumTo(lens, Len(lens))
            /\ \A j \in DOMAIN selected_files : \A r \in 1 .. lens[j] :
                  LET row == df_all[SumTo(lens, j - 1) + r]
                  IN  /\ row.cells[T_team] # <<>>
                      /\ IsStemOf(row.cells[T_team], selected_files[j])
                      /\ \A c \in DOMAIN Source(j).columns :
                            row.cells[Strip(Source(j).columns[c])]
                                = Source(j).data[r][c]

\* C6 in the scraper: the combined CSV has the rows of the saved teams, team
\* after team in the order of the URLs and row after row in the roster's
\* order, each tagged with the team name its CSV is named after.
C6_Scraper ==
    (prog = "scrape" /\ spc = "done" /\ combinedArg /\ Saved # <<>>) =>
        LET lens == [j \in DOMAIN Saved |-> Saved[j].n]
        IN  /\ Len(combined) = SumTo(lens, Len(lens))
            /\ \A j \in DOMAIN Saved : \A r \in 1 .. lens[j] :
                  LET row == combined[SumTo(lens, j - 1) + r]
                  IN  /\ row.team # <<>>
                      /\ OutName(row.team) = Saved[j].name
                      /\ row.name = Web[urls[Saved[j].src]].rows[r].name

\* C6: sources of m and n records combine to m + n rows, every row tagged
\* with the non-empty tag of its source, the sources in processing order
\* and each source's rows in their original order.
C6_Combined == C6_Dashboard /\ C6_Scraper

\* two files, of three rows and of one, have been combined
C6_Reached ==
    /\ prog = "app" /\ apc = "filter"
    /\ selected_files = <<F_a, F_B>>
    /\ Len(df_all) = 4
    /\ df_all[4].cells[T_team] = <<"B">>

\* C7: a team page that was fetched and has no table of class "items" makes
\* scrape_team return without raising, no file is written for that URL, and
\* main goes on with the URLs after it.
C7_MissingTable ==
    prog = "scrape" =>
        \A k \in DOMAIN urls :
            (Web[urls[k]].fetch = "ok" /\ ~Web[urls[k]].table) =>
                /\ ~(ui = k /\ spc = "crashed")
                /\ \A e \in DOMAIN stdout : ~(stdout[e].ev = "saved" /\ stdout[e].src = k)
                /\ ui = k => spc \in {"fetch", "interrupted"}

\* C8: when get_soup raises for a player's detail page, get_player_details
\* returns "N/A" for height, foot and debut and nothing propagates: the
\* player's record is appended with the row's name, age, position and market
\* value, and the loop goes on, one record per row processed.
C8_DetailFailure ==
    prog = "scrape" =>
        /\ spc = "rows" => Len(players) = idx - 1
        /\ spc = "crashed" => idx = 0
        /\ \A k \in DOMAIN players :
              /\ k \in DOMAIN soup.rows
              /\ LET row == soup.rows[k]
                 IN  (row.name_td /\ row.href /\ row.detail = "raise") =>
                        /\ players[k].height = "N/A"
                        /\ players[k].foot = "N/A"
                        /\ players[k].debut = "N/A"
                        /\ players[k].name = row.name
                        /\ players[k].age = row.age
                        /\ players[k].position = row.position
                        /\ players[k].market_value = row.market_value

\* the second player of page 1, whose detail page fails, has been appended
\* and the team saved
C8_Reached ==
    /\ prog = "scrape" /\ spc = "fetch" /\ ui = 2 /\ urls[1] = 1
    /\ Len(players) = 2
    /\ players[2].name = "Bo" /\ players[2].height = "N/A"
    /\ Len(files[OutName(soup.team_name)]) = 2

\* C9: a team's CSV is written before the next URL's listing page is
\* requested, so whenever the run stops the CSV of every earlier team that
\* had players is written in full, and no later URL touches it.
C9_WrittenOnce ==
    [][ /\ \A f \in DOMAIN files : f \in DOMAIN files' /\ files'[f] = files[f]
        /\ \A p, q \in DOMAIN stdout' :
              (stdout'[p].ev = "fetch" /\ stdout'[q].ev = "saved"
               /\ stdout'[q].src < stdout'[p].src) => q < p ]_vars

\* C10: with the team filter at "All", the age slider at its default, the
\* full range of the ages, and the foot filter at "All", df_filtered has
\* exactly the rows of df_all, those with a missing age included.
C10_FilterIdentity ==
    (/\ prog = "app" /\ apc = "done"
     /\ widgets.team = T_All /\ widgets.foot = T_All
     /\ widgets.age_range = DefaultRange(df_all)) =>
        df_filtered = df_all

=============================================================================
